---- MODULE Spec2Model ----
(***************************************************************************)
(* Model of ad2web/decoder.py: the Decoder session (device handle and      *)
(* trigger flags), the DecoderThread background monitor, the device        *)
(* callbacks, the broadcast fan-out and the DecoderNamespace diagnostic     *)
(* test sequence.                                                           *)
(***************************************************************************)
EXTENDS Integers, Sequences, FiniteSets, TLC

\* ---------------------------------------------------------------- bounds
MaxDevices == 2      \* AlarmDecoder objects alive at one time
MaxListeners == 2    \* websocket listener sessions
MaxEvents == 1       \* device event callbacks handled in one behaviour
MaxNotifiers == 2    \* configured notification targets
MaxOutcomes == 2     \* 'test' broadcasts followed per step invocation
MaxKey == 5          \* key codes 0..MaxKey (and 99) are drawn for on_keypress
MaxKeypresses == 2   \* calls of on_keypress followed in one behaviour

Devices == 1..MaxDevices
Listeners == 1..MaxListeners
None == 0            \* Python None for the device handle

VARIABLES
  \* settings store and certificate store (read by Decoder.open / Decoder.init)
  device_type,            \* Setting 'device_type' is configured
  device_location,        \* Setting 'device_location'
  use_ssl,                \* Setting 'use_ssl'
  certs,                  \* names present in the certificate store
  \* Decoder
  device,                 \* self.device: None or an AlarmDecoder object
  devState,               \* per AlarmDecoder object: "unused" | "new" | "open" | "closed"
  trigger_reopen_device,
  trigger_restart,
  inited,                 \* Decoder.init() has run
  stopped,                \* Decoder.stop(restart=False) has run to the end
  restarted,              \* os.execv replaced the process image
  \* websocket listeners and the last broadcast made
  sockets,                \* self.websocket.sockets
  bc,                     \* the call of Decoder.broadcast made by the last step, if any
  \* DecoderThread
  mpc,                    \* position of DecoderThread.run
  running,                \* DecoderThread._running
  mres,                   \* outcome of the call of Decoder.open the monitor made since
                          \* its last time.sleep(TIMEOUT), "none" when it made none
  lastNotified,           \* the last of init() ("init", with a device type configured),
                          \* _on_device_open ("open") and _on_device_close ("close")
                          \* to run to its end; "none" before
  \* DecoderNamespace.on_test (one foreground request at a time)
  tpc,                    \* position of on_test
  results,                \* the local variable results of _test_open
  timer,                  \* per step, the threading.Timer of its last invocation
  reg,                    \* per step, the device whose callback list holds the
                          \* one-shot listener of its last invocation (None: none)
  outcomes,               \* per step, the 'test' broadcasts of its last invocation
  \* Decoder._handle_event / _on_message and the stores they write
  eventlog,               \* the EventLogEntry rows committed, oldest first
  last_message,           \* self._last_message, as the number of the event callback
  ev,                     \* what the last _handle_event / _on_message call did
  \* DecoderNamespace.on_keypress
  keypresses              \* per call of on_keypress, oldest first: the key received
                          \* and the values passed to device.send

lifeVars == <<device_type, device_location, use_ssl, certs, device, devState,
              trigger_reopen_device, trigger_restart, inited, stopped, restarted,
              sockets, bc, mpc, running, mres, lastNotified>>
stepVars == <<timer, reg, outcomes>>
testVars == <<tpc, results, stepVars>>
eventVars == <<eventlog, last_message, ev>>

keyVars == <<keypresses>>

vars == <<lifeVars, testVars, eventVars, keyVars>>

CA == "AlarmDecoder CA"
INTERNAL == "AlarmDecoder Internal"

\* ------------------------------------------------------- broadcast fan-out
\* One run of the loop of _broadcast_packet: send_packet is called on the
\* listeners in the order of the dictionary (here: of their identifiers); the
\* first call that raises ends the loop. The outcome is the listener whose
\* send_packet raised, 0 when none did.
Deliveries == {0} \cup sockets

\* The listeners that were sent the packet of a broadcast that ended with f
DeliveredTo(registered, f) ==
  IF f = 0 THEN registered ELSE {l \in registered : l < f}

NoBroadcast == [name |-> "none", test |-> "", results |-> "", to |-> {}, failed |-> 0]

\* Decoder.broadcast(channel, data) with _make_packet and _broadcast_packet;
\* f is the outcome of the delivery.
\* test and results are the payload of a packet of the 'test' channel.
broadcast(channel, test, res, f) ==
  bc' = [name |-> channel, test |-> test, results |-> res,
         to |-> DeliveredTo(sockets, f), failed |-> f]

\* a step that calls broadcast nowhere
Quiet == bc' = NoBroadcast

\* ------------------------------------------------------------ the settings
\* The settings the stores can hold. Settings the code never reads under the
\* others (use_ssl and the certificates without a network device) are kept at
\* one value; the certificate store holds 'AlarmDecoder Internal' and may or
\* may not hold 'AlarmDecoder CA'.
Settings ==
  {s \in [device_type : BOOLEAN, device_location : {"local", "network"},
          use_ssl : BOOLEAN, certs : {{CA, INTERNAL}, {INTERNAL}}] :
     /\ (~s.device_type => s.device_location = "local")
     /\ (s.device_location = "local" => ~s.use_ssl)
     /\ (~s.use_ssl => s.certs = {CA, INTERNAL})}

\* The steps of on_test that wait for the device: _test_config, _test_send
\* and _test_receive
Steps == {"config", "send", "recv"}

Notifiers == 1..MaxNotifiers

NoCallback ==
  [handler |-> "none", ftype |-> "", complete |-> TRUE, commitOk |-> TRUE,
   attempts |-> [n \in Notifiers |-> 0], logged |-> 0, exc |-> "none",
   propagated |-> "none"]

\* Decoder.__init__, DecoderThread.__init__
Init ==
  /\ \E s \in Settings :
       /\ device_type = s.device_type
       /\ device_location = s.device_location
       /\ use_ssl = s.use_ssl
       /\ certs = s.certs
  /\ device = None
  /\ devState = [d \in Devices |-> "unused"]
  /\ trigger_reopen_device = FALSE
  /\ trigger_restart = FALSE
  /\ inited = FALSE
  /\ stopped = FALSE
  /\ restarted = FALSE
  /\ sockets \in SUBSET Listeners
  /\ bc = NoBroadcast
  /\ mpc = "idle"
  /\ running = FALSE
  /\ mres = "none"
  /\ lastNotified = "none"
  /\ tpc = "idle"
  /\ results = "PASS"
  /\ timer = [s \in Steps |-> "none"]
  /\ reg = [s \in Steps |-> None]
  /\ outcomes = [s \in Steps |-> 0]
  /\ eventlog = <<>>
  /\ last_message = 0
  /\ ev = NoCallback
  /\ keypresses = <<>>

\* ------------------------------------------------------------ the device
\* AlarmDecoder objects no reference reaches any more (not self.device, not
\* open, no listener of a diagnostic step on their lists) are dropped, so
\* that their identities can be used again.
Collect(st, h) ==
  [d \in Devices |->
     IF d # h /\ st[d] \in {"new", "closed"} /\ (\A s \in Steps : reg[s] # d)
       THEN "unused" ELSE st[d]]

FreeDevices == {d \in Devices : devState[d] = "unused"}
OpenDevices == {d \in Devices : devState[d] = "open"}

\* Decoder._on_device_open: the broadcast, then the flag
on_device_open(o, raised) ==
  /\ broadcast("device_open", "", "", o)
  /\ raised = (o # 0)
  /\ IF raised
       THEN UNCHANGED <<trigger_reopen_device, lastNotified>>
       ELSE trigger_reopen_device' = FALSE /\ lastNotified' = "open"

\* _on_device_close with the flag left as it is
on_device_close_keeps_flag(o, raised) ==
  /\ broadcast("device_close", "", "", o)
  /\ raised = (o # 0)
  /\ lastNotified' = (IF raised THEN lastNotified ELSE "close")
  /\ UNCHANGED trigger_reopen_device

\* Decoder._on_device_close: the broadcast, then the flag
on_device_close(o, raised) ==
  /\ broadcast("device_close", "", "", o)
  /\ raised = (o # 0)
  /\ IF raised
       THEN UNCHANGED <<trigger_reopen_device, lastNotified>>
       ELSE trigger_reopen_device' = TRUE /\ lastNotified' = "close"

\* The condition under which lines 145-152 are run
UseSsl == device_location = "network" /\ use_ssl

\* open() with the certificate lookups never raising
open_begin_no_lookup(r) ==
  /\ r = IF ~device_type THEN "noop" ELSE "pending"
  /\ IF r = "pending"
       THEN /\ FreeDevices # {}
            /\ LET d == CHOOSE x \in FreeDevices : \A y \in FreeDevices : x <= y
               IN /\ device' = d
                  /\ devState' = Collect([devState EXCEPT ![d] = "new"], d)
       ELSE UNCHANGED <<device, devState>>

\* open() with the test of line 127 left out: a device is made whatever
\* the device type
open_begin_any_device_type(r) ==
  /\ r = IF UseSsl /\ ~({CA, INTERNAL} \subseteq certs) THEN "NoResultFound"
         ELSE "pending"
  /\ IF r = "pending"
       THEN /\ FreeDevices # {}
            /\ LET d == CHOOSE x \in FreeDevices : \A y \in FreeDevices : x <= y
               IN /\ device' = d
                  /\ devState' = Collect([devState EXCEPT ![d] = "new"], d)
       ELSE UNCHANGED <<device, devState>>

\* Decoder.open, lines 124-155: the settings are read, the transport is made,
\* the certificates are looked up and self.device is replaced.
\*   r = "noop": no device type is configured, open() returns
\*   r = "NoResultFound": a certificate lookup (.one()) raised
\*   r = "pending": self.device is the new AlarmDecoder, device.open is next
open_begin(r) ==
  /\ r = IF ~device_type THEN "noop"
         ELSE IF UseSsl /\ ~({CA, INTERNAL} \subseteq certs) THEN "NoResultFound"
         ELSE "pending"
  /\ IF r = "pending"
       THEN /\ FreeDevices # {}
            /\ LET d == CHOOSE x \in FreeDevices : \A y \in FreeDevices : x <= y
               IN /\ device' = d
                  /\ devState' = Collect([devState EXCEPT ![d] = "new"], d)
       ELSE UNCHANGED <<device, devState>>

\* Decoder.open, line 156: self.device.open(baudrate) on the handle as it is now.
\*   r = "NoDeviceError": no transport answered (re-raised at line 160)
\*   r = "SSLError": the TLS negotiation failed (re-raised at line 165)
\*   r = "ok": the transport is open and on_open ran to its end
\*   r = "BroadcastError": the transport is open and on_open raised
open_finish(r, o) ==
  /\ device # None
  /\ r \in {"ok", "BroadcastError", "NoDeviceError"} \cup (IF UseSsl THEN {"SSLError"} ELSE {})
  /\ IF r \in {"NoDeviceError", "SSLError"}
       THEN Quiet /\ UNCHANGED <<devState, trigger_reopen_device, lastNotified>>
       ELSE /\ devState' = [devState EXCEPT ![device] = "open"]
            /\ on_device_open(o, r = "BroadcastError")
  /\ UNCHANGED device

\* Decoder.close: device.close() when there is a handle. Closing an open
\* device runs on_close; whether closing a device that is not open runs it
\* again is the library's choice (fires).
close(o, fires, raised) ==
  /\ IF device = None
       THEN raised = FALSE /\ Quiet /\ UNCHANGED <<devState, trigger_reopen_device, lastNotified>>
       ELSE /\ devState' = [devState EXCEPT ![device] = "closed"]
            /\ (devState[device] = "open" => fires)
            /\ IF fires
                 THEN on_device_close(o, raised)
                 ELSE raised = FALSE /\ Quiet /\ UNCHANGED <<trigger_reopen_device, lastNotified>>
  /\ UNCHANGED device

settingsVars == <<device_type, device_location, use_ssl, certs>>
coreVars == <<settingsVars, device, devState, trigger_reopen_device, trigger_restart,
              inited, stopped, restarted, mpc, running, mres, lastNotified>>

\* Decoder.init
init ==
  /\ ~inited /\ ~restarted
  /\ inited' = TRUE
  /\ IF device_type
       THEN trigger_reopen_device' = TRUE /\ lastNotified' = "init"
       ELSE UNCHANGED <<trigger_reopen_device, lastNotified>>
  /\ Quiet
  /\ UNCHANGED <<settingsVars, device, devState, trigger_restart, stopped, restarted,
                 sockets, mpc, running, mres, testVars, eventVars, keyVars>>

\* Decoder.start (the DecoderThread): Thread.start() returns with run() not
\* yet begun. The application calls start() once, at launch, before any stop().
start ==
  /\ mpc = "idle" /\ ~restarted /\ ~stopped
  /\ mpc' = "start"
  /\ Quiet
  /\ UNCHANGED <<settingsVars, device, devState, trigger_reopen_device, trigger_restart,
                 inited, stopped, restarted, sockets, running, mres,
                 lastNotified, testVars, eventVars, keyVars>>

\* Decoder.stop(restart): close(), DecoderThread.stop(), websocket.stop() and,
\* with restart, os.execv. An exception of close() leaves stop() at line 97.
stop(restart, o, fires, raised) ==
  /\ close(o, fires, raised)
  /\ IF raised
       THEN UNCHANGED <<running, stopped, restarted>>
       ELSE /\ running' = FALSE
            /\ IF restart
                 THEN restarted' = TRUE /\ UNCHANGED stopped
                 ELSE stopped' = TRUE /\ UNCHANGED restarted

\* Decoder.stop() called by the application
Stop ==
  /\ ~stopped /\ ~restarted
  /\ \E o \in Deliveries, fires \in BOOLEAN, raised \in BOOLEAN :
       stop(FALSE, o, fires, raised)
  /\ UNCHANGED <<settingsVars, trigger_restart, inited, sockets, mpc, mres, testVars, eventVars, keyVars>>

\* trigger_restart is set by the views that ask for a restart of the service
RequestRestart ==
  /\ ~trigger_restart /\ ~restarted
  /\ trigger_restart' = TRUE
  /\ Quiet
  /\ UNCHANGED <<settingsVars, device, devState, trigger_reopen_device, inited, stopped,
                 restarted, sockets, mpc, running, mres, lastNotified, testVars, eventVars, keyVars>>

\* The device's read thread loses the connection and closes the device: on_close
DeviceLost(d) ==
  /\ ~restarted
  /\ devState[d] = "open"
  /\ devState' = Collect([devState EXCEPT ![d] = "closed"], device)
  /\ \E o \in Deliveries, raised \in BOOLEAN : on_device_close(o, raised)
  /\ UNCHANGED <<settingsVars, device, trigger_restart, inited, stopped, restarted, sockets,
                 mpc, running, mres, testVars, eventVars, keyVars>>

\* ------------------------------------------------------------ DecoderThread
\* DecoderThread.run, line 265
MonitorStart ==
  /\ mpc = "start" /\ ~restarted
  /\ running' = TRUE
  /\ mpc' = "loop"
  /\ Quiet
  /\ UNCHANGED <<settingsVars, device, devState, trigger_reopen_device, trigger_restart,
                 inited, stopped, restarted, sockets, mres, lastNotified,
                 testVars, eventVars, keyVars>>

\* lines 267 and 271: while self._running, if trigger_reopen_device
MonitorLoop ==
  /\ mpc = "loop" /\ ~restarted
  /\ mpc' = IF ~running THEN "dead"
            ELSE IF trigger_reopen_device THEN "open" ELSE "restart"
  /\ Quiet
  /\ UNCHANGED <<settingsVars, device, devState, trigger_reopen_device, trigger_restart,
                 inited, stopped, restarted, sockets, running, mres,
                 lastNotified, testVars, eventVars, keyVars>>

\* run() with NoDeviceError caught by the handler of line 285
AfterOpen_outer_handler(r) ==
  IF r \in {"noop", "ok"} THEN "restart" ELSE "loop"

\* Where run() goes on with the outcome r of open(): NoDeviceError is caught at
\* line 275 and the iteration goes on at line 279; any other exception is
\* caught at line 285, past the sleep of line 283.
AfterOpen(r) ==
  IF r \in {"noop", "ok", "NoDeviceError"} THEN "restart" ELSE "loop"

\* line 274, open() up to line 155
MonitorOpen ==
  /\ mpc = "open" /\ ~restarted
  /\ \E r \in {"noop", "NoResultFound", "pending"} :
       /\ open_begin(r)
       /\ IF r = "pending"
            THEN mpc' = "opening" /\ UNCHANGED mres
            ELSE mpc' = AfterOpen(r) /\ mres' = r
  /\ Quiet
  /\ UNCHANGED <<settingsVars, trigger_reopen_device, trigger_restart, inited, stopped,
                 restarted, sockets, running, lastNotified, testVars, eventVars, keyVars>>

\* line 274, open() at line 156
MonitorOpening ==
  /\ mpc = "opening" /\ ~restarted
  /\ \E r \in {"ok", "BroadcastError", "NoDeviceError", "SSLError"}, o \in Deliveries :
       /\ open_finish(r, o)
       /\ mres' = r
       /\ mpc' = AfterOpen(r)
  /\ UNCHANGED <<settingsVars, trigger_restart, inited, stopped, restarted, sockets,
                 running, testVars, eventVars, keyVars>>

\* lines 279-281: if self._decoder.trigger_restart: stop(restart=True)
MonitorRestart ==
  /\ mpc = "restart" /\ ~restarted
  /\ IF trigger_restart
       THEN \E o \in Deliveries, fires \in BOOLEAN, raised \in BOOLEAN :
              /\ stop(TRUE, o, fires, raised)
              /\ mpc' = IF raised THEN "loop" ELSE "dead"
       ELSE /\ mpc' = "sleep"
            /\ Quiet
            /\ UNCHANGED <<device, devState, trigger_reopen_device, lastNotified,
                           running, stopped, restarted>>
  /\ UNCHANGED <<settingsVars, trigger_restart, inited, sockets, mres, testVars, eventVars, keyVars>>

\* line 283: time.sleep(self.TIMEOUT)
MonitorSleep ==
  /\ mpc = "sleep" /\ ~restarted
  /\ mpc' = "loop"
  /\ mres' = "none"
  /\ Quiet
  /\ UNCHANGED <<settingsVars, device, devState, trigger_reopen_device, trigger_restart,
                 inited, stopped, restarted, sockets, running, lastNotified,
                 testVars, eventVars, keyVars>>

Monitor ==
  \/ MonitorStart
  \/ MonitorLoop
  \/ MonitorOpen
  \/ MonitorOpening
  \/ MonitorRestart
  \/ MonitorSleep


\* ------------------------------------------- DecoderNamespace._test_open
\* The result _test_open reports: 'FAIL' is set at lines 352 and 357
OpenResults(r) == IF r \in {"noop", "ok"} THEN "PASS" ELSE "FAIL"

\* on_test, line 334; _test_open, line 348: self._alarmdecoder.close().
\* An exception of close() is caught at line 356. A request is taken when
\* the timers of the request before have run or are cancelled.
TestClose ==
  /\ tpc = "idle" /\ ~restarted /\ ~stopped
  /\ \A s \in Steps : timer[s] \notin {"armed", "fired"}
  /\ \E o \in Deliveries, fires \in BOOLEAN, raised \in BOOLEAN :
       /\ close(o, fires, raised)
       /\ results' = IF raised THEN "FAIL" ELSE "PASS"
       /\ tpc' = IF raised THEN "report" ELSE "open"
  /\ timer' = [s \in Steps |-> "none"]
  /\ outcomes' = [s \in Steps |-> 0]
  /\ UNCHANGED <<eventVars, keyVars, settingsVars, trigger_restart, inited, stopped, restarted,
                 sockets, mpc, running, mres, reg>>

\* _test_open, line 349: open() up to line 155
TestOpen ==
  /\ tpc = "open" /\ ~restarted
  /\ \E r \in {"noop", "NoResultFound", "pending"} :
       /\ open_begin(r)
       /\ IF r = "pending"
            THEN tpc' = "opening" /\ UNCHANGED results
            ELSE tpc' = "report" /\ results' = OpenResults(r)
  /\ Quiet
  /\ UNCHANGED <<stepVars, eventVars, keyVars, settingsVars, trigger_reopen_device, trigger_restart, inited, stopped,
                 restarted, sockets, mpc, running, mres, lastNotified>>

\* _test_open, line 349: open() at line 156
TestOpening ==
  /\ tpc = "opening" /\ ~restarted
  /\ \E r \in {"ok", "BroadcastError", "NoDeviceError", "SSLError"}, o \in Deliveries :
       /\ open_finish(r, o)
       /\ results' = OpenResults(r)
  /\ tpc' = "report"
  /\ UNCHANGED <<stepVars, eventVars, keyVars, settingsVars, trigger_restart, inited, stopped, restarted, sockets,
                 mpc, running, mres>>

\* _test_open, line 362 (finally). An exception of this broadcast leaves
\* _test_open and is caught by on_test at line 340, which ends the request.
TestOpenReport ==
  /\ tpc = "report" /\ ~restarted
  /\ \E o \in Deliveries :
       /\ broadcast("test", "open", results, o)
       /\ tpc' = IF o # 0 THEN "idle" ELSE "config"
  /\ results' = "PASS"
  /\ UNCHANGED <<stepVars, eventVars, keyVars, settingsVars, device, devState, trigger_reopen_device, trigger_restart,
                 inited, stopped, restarted, sockets, mpc, running, mres,
                 lastNotified>>

TestOpenStep ==
  \/ TestClose
  \/ TestOpen
  \/ TestOpening
  \/ TestOpenReport

NextLife ==
  \/ init
  \/ start
  \/ Stop
  \/ RequestRestart
  \/ \E d \in Devices : DeviceLost(d)
  \/ Monitor
  \/ TestOpenStep

\* The session with one listener connected: the lifecycle reads the listeners
\* only through whether a broadcast raises, and one listener can raise.
InitLife == Init /\ sockets = {1}

SpecLife == InitLife /\ [][NextLife]_vars

\* ------------------------ DecoderNamespace._test_config / _test_send / _test_receive
\* The step that follows a step in on_test, lines 336-338
NextStep(step) ==
  IF step = "config" THEN "send" ELSE IF step = "send" THEN "recv" ELSE "idle"

\* The position of on_test inside a step, its timer started
TryPc == [config |-> "config_try", send |-> "send_try", recv |-> "recv_try"]

\* timer.cancel(): a timer that has not expired is cancelled, one that has
\* expired runs on_timeout all the same
Cancel(t) == IF t = "armed" THEN "cancelled" ELSE t

\* if <listener> in self._alarmdecoder.device.<callbacks>: remove it. The
\* list looked at is the one of the handle as it is now.
Remove(r) == IF r = device THEN None ELSE r

\* lines 376-377, 427-428, 455-456: timer = threading.Timer(10, on_timeout); timer.start()
TestArm(step) ==
  /\ tpc = step /\ ~restarted
  /\ timer' = [timer EXCEPT ![step] = "armed"]
  /\ tpc' = TryPc[step]
  /\ Quiet
  /\ UNCHANGED <<coreVars, sockets, results, reg, outcomes, eventVars, keyVars>>

\* The try block of a step and its except clause (lines 379-408, 430-440,
\* 458-468). With no handle the first use of self._alarmdecoder.device raises
\* AttributeError, and so does the except clause after timer.cancel(): the
\* exception leaves the step and on_test (line 340). Otherwise the listener
\* is put on the handle's list and the command is sent; sent is whether
\* save_config() / send() returned. When it raised, the timer is cancelled,
\* the listener removed and FAIL broadcast; an exception of that broadcast
\* leaves on_test as well.
test_try(step, sent, o) ==
  IF device = None
    THEN /\ timer' = [timer EXCEPT ![step] = Cancel(timer[step])]
         /\ tpc' = "idle"
         /\ Quiet
         /\ UNCHANGED <<reg, outcomes>>
    ELSE IF sent
      THEN /\ reg' = [reg EXCEPT ![step] = device]
           /\ tpc' = NextStep(step)
           /\ Quiet
           /\ UNCHANGED <<timer, outcomes>>
      ELSE /\ timer' = [timer EXCEPT ![step] = Cancel(timer[step])]
           /\ reg' = [reg EXCEPT ![step] = None]
           /\ broadcast("test", step, "FAIL", o)
           /\ outcomes' = [outcomes EXCEPT ![step] = @ + 1]
           /\ tpc' = IF o # 0 THEN "idle" ELSE NextStep(step)

TestTry(step) ==
  /\ tpc = TryPc[step] /\ ~restarted
  /\ \E sent \in BOOLEAN, o \in Deliveries : test_try(step, sent, o)
  /\ UNCHANGED <<coreVars, sockets, results, eventVars, keyVars>>

\* The one-shot listener of a step, called by the device it is registered on:
\* on_config_received (lines 365-369), on_sending_received (lines 411-420),
\* on_message (lines 443-448). status is the argument of on_sending_received.
\* on_config_received broadcasts before it removes itself, the two others
\* after; an exception of the broadcast ends the listener there.
callback(step, status, o) ==
  /\ timer' = [timer EXCEPT ![step] = Cancel(timer[step])]
  /\ broadcast("test", step, IF step = "send" /\ ~status THEN "FAIL" ELSE "PASS", o)
  /\ outcomes' = [outcomes EXCEPT ![step] = @ + 1]
  /\ reg' = [reg EXCEPT ![step] =
               IF step = "config" /\ o # 0 THEN reg[step] ELSE Remove(reg[step])]

Callback(step) ==
  /\ ~restarted
  /\ reg[step] # None /\ devState[reg[step]] = "open"
  /\ outcomes[step] < MaxOutcomes
  /\ \E status \in BOOLEAN, o \in Deliveries : callback(step, status, o)
  /\ UNCHANGED <<coreVars, sockets, tpc, results, eventVars, keyVars>>

\* threading.Timer.run: the interval has passed and the timer was not
\* cancelled; on_timeout is about to be called
TimerExpire(step) ==
  /\ ~restarted
  /\ timer[step] = "armed"
  /\ timer' = [timer EXCEPT ![step] = "fired"]
  /\ Quiet
  /\ UNCHANGED <<coreVars, sockets, tpc, results, reg, outcomes, eventVars, keyVars>>

\* on_timeout (lines 371-374, 422-425, 450-453): TIMEOUT is broadcast, then
\* the listener removed; an exception of the broadcast ends on_timeout there.
on_timeout(step, o) ==
  /\ broadcast("test", step, "TIMEOUT", o)
  /\ outcomes' = [outcomes EXCEPT ![step] = @ + 1]
  /\ reg' = [reg EXCEPT ![step] = IF o # 0 THEN reg[step] ELSE Remove(reg[step])]
  /\ timer' = [timer EXCEPT ![step] = "done"]

TimerRun(step) ==
  /\ ~restarted
  /\ timer[step] = "fired"
  /\ \E o \in Deliveries : on_timeout(step, o)
  /\ UNCHANGED <<coreVars, sockets, tpc, results, eventVars, keyVars>>

NextTest ==
  \/ TestOpenStep
  \/ \E step \in Steps : TestArm(step)
  \/ \E step \in Steps : TestTry(step)
  \/ \E step \in Steps : Callback(step)
  \/ \E step \in Steps : TimerExpire(step)
  \/ \E step \in Steps : TimerRun(step)

\* The diagnostic sequence alone, with one listener connected and a serial
\* device or none configured
InitTest == Init /\ sockets = {1} /\ device_location = "local"

SpecTest == InitTest /\ [][NextTest]_vars

\* ------------------------------------------- the event kinds and messages
\* EVENTS, lines 34-48
EVENTS == {"ARM", "DISARM", "POWER_CHANGED", "ALARM", "FIRE", "BYPASS", "BOOT",
           "CONFIG_RECEIVED", "ZONE_FAULT", "ZONE_RESTORE", "LOW_BATTERY", "PANIC",
           "RELAY_CHANGED"}

\* CRITICAL_EVENTS, lines 31-32
CRITICAL_EVENTS == {"POWER_CHANGED", "ALARM", "BYPASS", "ARM", "DISARM", "ZONE_FAULT",
                    "ZONE_RESTORE", "FIRE", "PANIC"}

\* The replacement fields of EVENT_MESSAGES[ftype], lines 50-64
Fields(ftype) ==
  IF ftype = "POWER_CHANGED" THEN {"status"}
  ELSE IF ftype \in {"ZONE_FAULT", "ZONE_RESTORE"} THEN {"zone_name", "zone"}
  ELSE {}

\* The keyword arguments of an event callback: zone = 0 and status = ""
\* stand for the argument being absent.
Kwargs == [zone : {0, 7, 8}, status : {"", "True"}]

\* Zone.get_name: the name of a zone, "" (None) when it has none
ZoneName(zone) == IF zone = 7 THEN "Front Door" ELSE ""

\* lines 212-214: the keys of kwargs once zone_name is merged in
Keys(kw) ==
  (IF kw.zone # 0 THEN {"zone", "zone_name"} ELSE {}) \cup
  (IF kw.status # "" THEN {"status"} ELSE {})

\* line 216: EVENT_MESSAGES[ftype].format(**kwargs), the template and the
\* values put in its fields; format raises KeyError when a field has no key.
Format(ftype, kw) ==
  [template |-> ftype,
   zone_name |-> IF "zone_name" \in Fields(ftype)
                   THEN (IF ZoneName(kw.zone) # "" THEN ZoneName(kw.zone) ELSE "<unnamed>")
                   ELSE "",
   zone |-> IF "zone" \in Fields(ftype) THEN kw.zone ELSE 0,
   status |-> IF "status" \in Fields(ftype) THEN kw.status ELSE ""]

\* line 217 with every kind taken for critical
Notifies_every_kind(ftype) == TRUE

\* line 217: if ftype in CRITICAL_EVENTS
Notifies(ftype) == ftype \in CRITICAL_EVENTS

\* an except clause that catches the exceptions of the broadcast only
except_broadcast_only(e) == IF e = "BroadcastError" THEN "none" ELSE e

\* lines 204 and 227, except Exception: what leaves the handler when e was
\* raised inside its try block
except_Exception(e) == "none"

\* _handle_event(ftype, sender, **kw). nfail is the first notifier whose send
\* raises (0: none), commitOk whether db.session.commit() succeeds, o the
\* outcome of the delivery of the broadcast. The first exception raised ends
\* the try block.
handle_event(ftype, kw, nfail, commitOk, o) ==
  LET complete == Fields(ftype) \subseteq Keys(kw)
      notify == complete /\ Notifies(ftype)
      sendFailed == notify /\ nfail # 0
      attempts == [n \in Notifiers |->
                     IF notify /\ (nfail = 0 \/ n <= nfail) THEN 1 ELSE 0]
      persist == complete /\ ~sendFailed
      committed == persist /\ commitOk
      delivered == committed
      exc == IF ~complete THEN "KeyError"
             ELSE IF sendFailed THEN "NotifyError"
             ELSE IF ~commitOk THEN "CommitError"
             ELSE IF o # 0 THEN "BroadcastError"
             ELSE "none"
  IN /\ last_message' = last_message + 1
     /\ eventlog' = IF committed
                      THEN Append(eventlog, [type |-> ftype, message |-> Format(ftype, kw)])
                      ELSE eventlog
     /\ IF delivered THEN broadcast("event", "", "", o) ELSE Quiet
     /\ ev' = [handler |-> "event", ftype |-> ftype, complete |-> complete,
               commitOk |-> commitOk, attempts |-> attempts,
               logged |-> Len(eventlog') - Len(eventlog), exc |-> exc,
               propagated |-> except_Exception(exc)]

\* A device event callback (one of the handlers bound at lines 184-186)
HandleEvent ==
  /\ ~restarted
  /\ last_message < MaxEvents
  /\ \E ftype \in EVENTS, kw \in Kwargs :
       \* outcomes of the calls the handler does not reach are not drawn
       \E nfail \in IF Fields(ftype) \subseteq Keys(kw) /\ Notifies(ftype)
                      THEN {0} \cup Notifiers ELSE {0} :
         \E commitOk \in IF Fields(ftype) \subseteq Keys(kw) /\ nfail = 0
                           THEN BOOLEAN ELSE {TRUE} :
           \E o \in IF Fields(ftype) \subseteq Keys(kw) /\ nfail = 0 /\ commitOk
                       THEN Deliveries ELSE {0} :
             handle_event(ftype, kw, nfail, commitOk, o)
  /\ UNCHANGED <<coreVars, sockets, testVars, keyVars>>

\* _on_message(ftype, sender, message): a callback of on_message,
\* on_lrr_message, on_rfx_message or on_expander_message (lines 175-178)
OnMessage ==
  /\ ~restarted
  /\ \E ftype \in {"panel", "lrr", "rfx", "exp"}, o \in Deliveries :
       /\ broadcast("message", ftype, "", o)
       /\ ev' = [NoCallback EXCEPT !.handler = "message", !.ftype = ftype,
                   !.exc = IF o # 0 THEN "BroadcastError" ELSE "none",
                   !.propagated = except_Exception(IF o # 0 THEN "BroadcastError" ELSE "none")]
  /\ UNCHANGED <<coreVars, sockets, testVars, eventlog, last_message, keyVars>>

\* A listener session is added to self.websocket.sockets
Connect(l) ==
  /\ ~restarted
  /\ l \notin sockets
  /\ sockets' = sockets \cup {l}
  /\ Quiet
  /\ UNCHANGED <<coreVars, testVars, eventVars, keyVars>>

\* A listener session is removed from self.websocket.sockets
Disconnect(l) ==
  /\ ~restarted
  /\ l \in sockets
  /\ sockets' = sockets \ {l}
  /\ Quiet
  /\ UNCHANGED <<coreVars, testVars, eventVars, keyVars>>

NextEvent ==
  \/ HandleEvent
  \/ OnMessage
  \/ \E l \in Listeners : Connect(l)
  \/ \E l \in Listeners : Disconnect(l)

\* The callbacks read none of the settings: one configuration is followed.
InitEvent == Init /\ device_type /\ device_location = "local"

SpecEvent == InitEvent /\ [][NextEvent]_vars

\* ------------------------------------------- DecoderNamespace.on_keypress
\* The key codes a listener sends
KeyCodes == 0..MaxKey \cup {99}

\* A value passed to device.send: one of the library's key constants
\* (AlarmDecoder.KEY_F1 .. KEY_F4, KEY_PANIC), or the key as it was received
Fixed(name) == [fixed |-> name, code |-> 0]
Literal(key) == [fixed |-> "", code |-> key]

\* lines 315-326 with the branch of line 323 left out
KeyValue_no_panic(key) ==
  IF key = 1 THEN Fixed("KEY_F1")
  ELSE IF key = 2 THEN Fixed("KEY_F2")
  ELSE IF key = 3 THEN Fixed("KEY_F3")
  ELSE IF key = 4 THEN Fixed("KEY_F4")
  ELSE Literal(key)

\* lines 315-326: the argument of the one call of device.send that is made
KeyValue(key) ==
  IF key = 1 THEN Fixed("KEY_F1")
  ELSE IF key = 2 THEN Fixed("KEY_F2")
  ELSE IF key = 3 THEN Fixed("KEY_F3")
  ELSE IF key = 4 THEN Fixed("KEY_F4")
  ELSE IF key = 5 THEN Fixed("KEY_PANIC")
  ELSE Literal(key)

\* on_keypress(key). With no handle self._alarmdecoder.device.send raises
\* AttributeError, which the except clause of line 328 does not catch;
\* otherwise send is called once, and r is whether it returned ("none") or
\* raised CommError, which is caught.
on_keypress(key, r) ==
  keypresses' = Append(keypresses,
    IF device = None
      THEN [key |-> key, sent |-> <<>>, exc |-> "AttributeError",
            propagated |-> "AttributeError"]
      ELSE [key |-> key, sent |-> <<KeyValue(key)>>, exc |-> r, propagated |-> "none"])

Keypress ==
  /\ ~restarted
  /\ Len(keypresses) < MaxKeypresses
  /\ \E key \in KeyCodes :
       \E r \in IF device = None THEN {"none"} ELSE {"none", "CommError"} :
         on_keypress(key, r)
  /\ Quiet
  /\ UNCHANGED <<coreVars, sockets, testVars, eventVars>>

NextKey ==
  \/ Keypress
  \/ TestOpenStep

\* Key presses of one listener, beside the open step of a diagnostic request
\* that gives the session its handle; a serial device or none is configured
InitKey == Init /\ sockets = {1} /\ device_location = "local"

SpecKey == InitKey /\ [][NextKey]_vars

\* ================================================================ claims
Raised == {"NoDeviceError", "SSLError", "NoResultFound", "BroadcastError"}

\* The Connection of the Session is not open
ConnectionClosed == device = None \/ devState[device] # "open"

\* C1: in every reachable state at most one Connection (AlarmDecoder object
\* whose transport is open) exists.
C1_AtMostOneOpen == Cardinality(OpenDevices) <= 1

\* The invocation of a step is over: on_test has left the step and its timer
\* is cancelled or has run on_timeout.
StepFinished(step) == timer[step] \in {"cancelled", "done"} /\ tpc # TryPc[step]

\* C2: an invocation of a step (config, send, receive) broadcasts at most one
\* outcome on the 'test' channel, and exactly one once it is over.
C2_ExactlyOneOutcome ==
  \A step \in Steps :
    /\ outcomes[step] <= 1
    /\ StepFinished(step) => outcomes[step] = 1

C8_NoDeviceErrorRetriesAfterSleep ==
  /\ [](mpc = "open" /\ mres = "NoDeviceError" => trigger_restart)
  /\ [][/\ (mpc = "opening" /\ mpc' # mpc /\ mres' = "NoDeviceError")
             => /\ trigger_reopen_device' = trigger_reopen_device
                /\ running' = running
                /\ mpc' = "restart"
        /\ (mpc = "restart" /\ mpc' # mpc /\ ~trigger_restart) => mpc' = "sleep"
        /\ (mpc = "sleep" /\ mpc' # mpc) => mpc' = "loop" /\ mres' = "none"
        /\ (mpc = "loop" /\ mpc' # mpc /\ running /\ trigger_reopen_device)
             => mpc' = "open"]_vars

\* C8 witness: the monitor is about to attempt open() again, the flag still
\* set, after an attempt that raised NoDeviceError and the sleep that followed.
C8_Witness ==
  /\ mpc = "open" /\ mres = "none" /\ trigger_reopen_device
  /\ device # None /\ devState[device] = "new"
  /\ OpenDevices = {} /\ tpc = "idle" /\ ~trigger_restart

\* C9: the monitor attempts open() again after an iteration that raised an
\* exception other than NoDeviceError only once time.sleep(TIMEOUT) has run.
C9_SleepsAfterOtherException ==
  mpc = "open" => mres \notin {"SSLError", "NoResultFound", "BroadcastError"}

\* C10: a step of open() that raises (in the monitor or in _test_open) leaves
\* trigger_reopen_device as it is; and with a network device, use_ssl and no
\* 'AlarmDecoder CA' certificate every open() raises at the lookup, no device
\* is ever opened and the flag, once init() has set it, stays set.
C10_OpenRaisesFlagUnchanged ==
  /\ [][/\ (mpc \in {"open", "opening"} /\ mpc' \notin {"open", "opening"}
             /\ mres' \in Raised)
             => trigger_reopen_device' = trigger_reopen_device
        /\ (tpc \in {"open", "opening"} /\ tpc' = "report" /\ results' = "FAIL")
             => trigger_reopen_device' = trigger_reopen_device]_vars
  /\ []((device_type /\ UseSsl /\ CA \notin certs)
          => /\ mres \in {"none", "NoResultFound"}
             /\ (tpc = "report" => results = "FAIL")
             /\ OpenDevices = {}
             /\ trigger_reopen_device = inited)

\* C10 witness: with no 'AlarmDecoder CA' certificate the monitor's open() has
\* raised at the lookup and the flag is still set.
C10_Witness ==
  /\ device_type /\ UseSsl /\ CA \notin certs
  /\ mres = "NoResultFound"
  /\ trigger_reopen_device

\* C4: a callback of a critical kind whose attributes fill its template, with
\* the event log store accepting the commit, leaves exactly one new
\* EventLogEntry and at least one send on every notifier, whatever send raises.
C4_CriticalLoggedAndAllNotified ==
  (ev.handler = "event" /\ ev.ftype \in CRITICAL_EVENTS /\ ev.complete /\ ev.commitOk)
    => /\ ev.logged = 1
       /\ \A n \in Notifiers : ev.attempts[n] >= 1

\* C5: a callback of a kind outside the critical subset makes no send on any
\* notifier and, the event log store accepting the commit, leaves exactly one
\* new EventLogEntry, of that kind, at the end of the log (none when the
\* commit is refused).
C5_NonCriticalLoggedNotNotified ==
  (ev.handler = "event" /\ ev.ftype \notin CRITICAL_EVENTS)
    => /\ \A n \in Notifiers : ev.attempts[n] = 0
       /\ ev.logged = (IF ev.commitOk THEN 1 ELSE 0)
       /\ ev.commitOk => /\ Len(eventlog) >= 1
                         /\ eventlog[Len(eventlog)].type = ev.ftype
                         /\ eventlog[Len(eventlog)].message.template = ev.ftype

\* C5 witness: a low-battery callback has been handled and logged.
C5_Witness ==
  /\ ev.handler = "event" /\ ev.ftype = "LOW_BATTERY"
  /\ ev.logged = 1 /\ eventlog[Len(eventlog)].type = "LOW_BATTERY"
  /\ \A n \in Notifiers : ev.attempts[n] = 0

\* C6: every broadcast sends its packet to every listener registered at the
\* time of the call, but for the one whose send_packet raised.
C6_EveryListenerServed ==
  bc.name # "none" => (sockets \ {bc.failed}) \subseteq bc.to

\* C7: no exception leaves _handle_event or _on_message.
C7_CallbacksReturnNormally == ev.propagated = "none"

\* C7 witness: an event callback in which a notifier raised has returned.
C7_Witness ==
  /\ ev.handler = "event" /\ ev.exc = "NotifyError" /\ ev.propagated = "none"

\* C11: a call of open() made while no device type is configured (by the
\* monitor or by _test_open) raises nothing and makes no AlarmDecoder: the
\* device handle, the state of every device and both trigger flags are as
\* they were before the call.
C11_OpenUnconfiguredIsNoOp ==
  [][/\ (~device_type /\ tpc = "open" /\ tpc' # tpc)
          => /\ tpc' = "report" /\ results' = "PASS"
             /\ device' = device /\ devState' = devState
             /\ trigger_reopen_device' = trigger_reopen_device
             /\ trigger_restart' = trigger_restart
     /\ (~device_type /\ mpc = "open" /\ mpc' # mpc)
          => /\ mpc' = "restart" /\ mres' = "noop"
             /\ device' = device /\ devState' = devState
             /\ trigger_reopen_device' = trigger_reopen_device
             /\ trigger_restart' = trigger_restart]_vars

\* C11 witness: _test_open has called open() with no device type configured;
\* open() has returned and there is still no device handle.
C11_Witness ==
  /\ ~device_type /\ tpc = "report" /\ results = "PASS"
  /\ device = None /\ ~trigger_reopen_device

\* C12: when on_test has returned from a request in which the open step was
\* reported and the config step started, the steps send and receive were
\* started in that request as well, whatever the steps before them met.
C12_AllStepsRun ==
  (tpc = "idle" /\ timer["config"] # "none")
    => \A s \in Steps : timer[s] # "none"

\* C13: a call of close() (by stop() or by _test_open) made when the handle's
\* Connection is already closed is a no-op: it makes no broadcast and leaves
\* the device handle and trigger_reopen_device as they are.
C13_SecondCloseIsNoOp ==
  [][(/\ (tpc = "idle" /\ tpc' # tpc) \/ (~stopped /\ stopped')
      /\ device # None /\ devState[device] = "closed")
       => /\ bc' = NoBroadcast
          /\ device' = device
          /\ trigger_reopen_device' = trigger_reopen_device]_vars

\* The value the key code stands for: function key 1 to 4 for the codes 1 to
\* 4, the panic key for 5, the code itself for every other code
KeyMeant(key) ==
  IF key \in 1..4 THEN Fixed(<<"KEY_F1", "KEY_F2", "KEY_F3", "KEY_F4">>[key])
  ELSE IF key = 5 THEN Fixed("KEY_PANIC")
  ELSE Literal(key)

C15_RestartCheckedEveryIteration ==
  [][(trigger_restart /\ mpc \in {"open", "opening"} /\ mpc' \notin {"open", "opening"})
       => mpc' = "restart"]_vars

\* C16: after a step in which _on_device_open ran (it made the 'device_open'
\* broadcast) trigger_reopen_device is false, and after one in which
\* _on_device_close ran (the 'device_close' broadcast) it is true, also when
\* the delivery of the broadcast failed.
C16_NotificationFlipsFlag ==
  /\ bc.name = "device_open" => ~trigger_reopen_device
  /\ bc.name = "device_close" => trigger_reopen_device

\* A step is pending: its timer runs and its listener is registered
Pending(step) == timer[step] = "armed" /\ reg[step] # None

\* C17: at no time are two steps of one request pending together (a step is
\* started only when the step before it has reported its outcome).
C17_StepsSequential == Cardinality({s \in Steps : Pending(s)}) <= 1

\* C18: once stop(restart=False) has returned, having cleared the monitor's
\* running flag, the monitor iteration in flight opens no device (the loop
\* then ends with no Connection open).
C18_NoReopenAfterStop ==
  [][(stopped /\ ~running /\ mpc = "opening" /\ mpc' # mpc)
       => OpenDevices' \subseteq OpenDevices]_vars

\* C19: once stop() has returned, called after start(), the monitor's running
\* flag is false and stays so (the loop ends at its next test of line 267).
C19_StopNotOverridden == stopped => ~running

\* C20: once a step has reported its outcome its one-shot listener is on the
\* callback list of no device; so when on_timeout has just delivered TIMEOUT
\* to every listener with the step's listener not registered, the next step
\* of the program registers it on no device.
C20_ListenerRemovedOnceReported ==
  [][\A s \in Steps :
       (/\ bc.name = "test" /\ bc.test = s /\ bc.results = "TIMEOUT" /\ bc.failed = 0
        /\ timer[s] = "done" /\ reg[s] = None)
         => reg'[s] = None]_vars

====
